---- MODULE Spec2Model ----
(***************************************************************************)
(* Model of the rule no-unused-styles (lib/rules/no-unused-styles.js).     *)
(*                                                                         *)
(* The rule keeps three closure variables per linted file                  *)
(* (cssFromWithStylesName, usedStyles, definedStyles) and registers three  *)
(* visitors (CallExpression, MemberExpression, ImportDeclaration) that the *)
(* tree walker calls once per node.  The diagnostics sink context.report   *)
(* is modelled by the sequence `reports`.                                  *)
(***************************************************************************)
EXTENDS Integers, Sequences, FiniteSets, TLC

VARIABLES
    cssFromWithStylesName, \* let cssFromWithStylesName (a JS value)
    usedStyles,            \* const usedStyles = {}     (its own keys)
    definedStyles,         \* const definedStyles = {}  (entries in insertion order)
    reports,               \* calls of context.report, in order
    thrown,                \* a visitor raised a TypeError: the walk is aborted
    node,                  \* the node handed to the visitor that ran last
    nVisited,              \* number of visitor calls so far
    todo                   \* member nodes of the entered expression still to visit

vars == <<cssFromWithStylesName, usedStyles, definedStyles, reports, thrown,
          node, nVisited, todo>>

(***************************************************************************)
(* Bounds of the model.                                                    *)
(***************************************************************************)
MaxVisits == 4     \* visitor calls per file
MaxProps  == 2     \* properties of a style-definitions object
MaxStmts  == 2     \* statements of a block body
MaxChain  == 4     \* member accesses of a chain a.b.c.d

(***************************************************************************)
(* JavaScript values, as far as the rule handles them.                     *)
(***************************************************************************)
Undefined == [t |-> "undefined"]
Null      == [t |-> "null"]
Str(s)    == [t |-> "string", s |-> s]
Num(n)    == [t |-> "number", n |-> n]

\* ToBoolean, as used by `!!x` and `if (x)`.
Truthy(v) ==
    CASE v.t = "string" -> v.s # ""
      [] v.t = "number" -> v.n # 0
      [] OTHER          -> FALSE

\* The decimal digits, Digits[d + 1] being the digit of value d.
Digits == <<"0", "1", "2", "3", "4", "5", "6", "7", "8", "9">>

RECURSIVE NumberToString(_)
\* Number::toString of an integer: its decimal numeral.
NumberToString(n) ==
    IF n < 0 THEN "-" \o NumberToString(0 - n)
    ELSE IF n < 10 THEN Digits[n + 1]
    ELSE NumberToString(n \div 10) \o Digits[(n % 10) + 1]

\* ToPropertyKey: what `obj[v]` uses as the key.
ToPropertyKey(v) ==
    CASE v.t = "string"    -> v.s
      [] v.t = "number"    -> NumberToString(v.n)
      [] v.t = "null"      -> "null"
      [] OTHER             -> "undefined"

(***************************************************************************)
(* Syntax-tree nodes (ESTree shapes).                                      *)
(***************************************************************************)
Identifier(name)        == [type |-> "Identifier", name |-> name]
Literal(value)          == [type |-> "Literal", value |-> value]
TemplateLiteral(qs, es) == [type |-> "TemplateLiteral", quasis |-> qs, expressions |-> es]
ThisExpression          == [type |-> "ThisExpression"]
BinaryExpression        == [type |-> "BinaryExpression"]
MemberExpr(o, p, c)     == [type |-> "MemberExpression", object |-> o, property |-> p,
                            computed |-> c]

\* Reading a property that a node may not have yields undefined.
Has(n, f) == f \in DOMAIN n

(***************************************************************************)
(* function getBasicIdentifier(node)                                       *)
(***************************************************************************)
getBasicIdentifier(n) ==
    IF n.type = "Identifier" THEN Str(n.name)
    ELSE IF n.type = "Literal" THEN n.value
    ELSE IF n.type = "TemplateLiteral" THEN
        IF Len(n.expressions) # 0 THEN Null ELSE Str(n.quasis[1])
    ELSE Null

(***************************************************************************)
(* The two detectors live in lib/util and are described by the rule only   *)
(* through their interface: node -> local name, or null.  A node of the    *)
(* model carries the answer of its detector.                               *)
(***************************************************************************)
findRequireCSSFromWithStylesCallExpression(n) == n.requireCSS

findImportCSSFromWithStylesImportDeclaration(n) == n.importCSS

(***************************************************************************)
(* function isCSSFound(), applied to the current cssFromWithStylesName.    *)
(***************************************************************************)
isCSSFound_Always(css) == TRUE

isCSSFound(css) == Truthy(css)

(***************************************************************************)
(* Plain objects created by {}: a sequence of entries in the order in      *)
(* which Object.keys lists them, array-index keys first in ascending       *)
(* numeric order, then the other keys in insertion order.                  *)
(***************************************************************************)
CharAt(s, i) == SubSeq(s, i, i)

DigitValue(c) == CHOOSE d \in 0..9 : Digits[d + 1] = c

\* The largest array index, 2^32 - 2, as a key.
MaxArrayIndex == "4294967294"

\* a < b for two numerals without leading zeros.
NumeralLess(a, b) ==
    \/ Len(a) < Len(b)
    \/ /\ Len(a) = Len(b)
       /\ \E i \in 1..Len(a) :
            /\ SubSeq(a, 1, i - 1) = SubSeq(b, 1, i - 1)
            /\ DigitValue(CharAt(a, i)) < DigitValue(CharAt(b, i))

\* k is the canonical numeral of an integer in 0 .. 2^32 - 2.
IsArrayIndex(k) ==
    /\ Len(k) >= 1
    /\ \A i \in 1..Len(k) : \E d \in 0..9 : Digits[d + 1] = CharAt(k, i)
    /\ Len(k) = 1 \/ CharAt(k, 1) # "0"
    /\ k = MaxArrayIndex \/ NumeralLess(k, MaxArrayIndex)

\* The key __proto__ is the accessor inherited from Object.prototype: an
\* assignment to it goes to the setter and creates no own property.
ProtoKey == "__proto__"

ObjectKeys(obj) == [i \in 1..Len(obj) |-> obj[i].key]

KeySet(obj) == {obj[i].key : i \in 1..Len(obj)}

ObjectGet(obj, k) == obj[CHOOSE i \in 1..Len(obj) : obj[i].key = k].value

\* obj[k] = v: __proto__ adds no own key, an existing key keeps its position,
\* a new array index goes after the smaller indices, any other new key last.
ObjectSet(obj, k, v) ==
    LET entry == [key |-> k, value |-> v] IN
    IF k = ProtoKey THEN obj
    ELSE IF k \in KeySet(obj)
    THEN [i \in 1..Len(obj) |-> IF obj[i].key = k THEN entry ELSE obj[i]]
    ELSE IF IsArrayIndex(k)
    THEN LET below == Cardinality({i \in 1..Len(obj) :
                          IsArrayIndex(obj[i].key) /\ NumeralLess(obj[i].key, k)})
         IN  SubSeq(obj, 1, below) \o <<entry>> \o SubSeq(obj, below + 1, Len(obj))
    ELSE Append(obj, entry)

(***************************************************************************)
(* CallExpression, lines 66-83: the style-definitions object of the call.  *)
(* The result is [threw, obj]; obj is Undefined when none is found.        *)
(***************************************************************************)
RECURSIVE scanBody(_, _, _)
\* body.body.forEach((bodyNode) => { ... stylesObj = bodyNode.argument })
scanBody(stmts, i, stylesObj) ==
    IF i > Len(stmts) THEN [threw |-> FALSE, obj |-> stylesObj]
    ELSE LET bodyNode == stmts[i] IN
         IF bodyNode.type = "ReturnStatement"
         THEN IF bodyNode.argument = Null
              THEN [threw |-> TRUE, obj |-> stylesObj]    \* null.type
              ELSE IF bodyNode.argument.type = "ObjectExpression"
                   THEN scanBody(stmts, i + 1, bodyNode.argument)
                   ELSE scanBody(stmts, i + 1, stylesObj)
         ELSE scanBody(stmts, i + 1, stylesObj)

findStylesObj(call) ==
    LET styles == IF Len(call.arguments) >= 1 THEN call.arguments[1] ELSE Undefined IN
    IF styles # Undefined /\ styles.type = "ArrowFunctionExpression"
    THEN LET body == styles.body IN
         IF body.type = "ObjectExpression" THEN [threw |-> FALSE, obj |-> body]
         ELSE IF body.type = "BlockStatement" THEN scanBody(body.body, 1, Undefined)
         ELSE [threw |-> FALSE, obj |-> Undefined]
    ELSE [threw |-> FALSE, obj |-> Undefined]

(***************************************************************************)
(* CallExpression, lines 85-103: stylesObj.properties.forEach(...)         *)
(***************************************************************************)
\* property.key.name
keyName(property) ==
    IF Has(property.key, "name") THEN Str(property.key.name) ELSE Undefined

\* One round of the forEach callback.
defineStyle(defs, property) ==
    IF Has(property, "computed") /\ property.computed THEN defs
    ELSE IF property.type = "ExperimentalSpreadProperty" THEN defs
    ELSE ObjectSet(defs, ToPropertyKey(keyName(property)), property)

RECURSIVE defineStyles(_, _, _)
defineStyles(defs, properties, i) ==
    IF i > Len(properties) THEN defs
    ELSE defineStyles(defineStyle(defs, properties[i]), properties, i + 1)

(***************************************************************************)
(* CallExpression, lines 106-115: the reports of one withStyles call.      *)
(***************************************************************************)
\* The template string at line 112, as its parts; Backquote is the character U+0060.
Backquote == "U+0060"

Message(k) == <<"Style ", Backquote, k, Backquote, " is unused">>

has(used, k) == k \in used

RECURSIVE reportUnused(_, _, _)
reportUnused(defs, used, i) ==
    IF i > Len(defs) THEN <<>>
    ELSE LET definedStyleKey == ObjectKeys(defs)[i] IN
         (IF ~has(used, definedStyleKey)
          THEN <<[node |-> ObjectGet(defs, definedStyleKey),
                  message |-> Message(definedStyleKey)]>>
          ELSE <<>>) \o reportUnused(defs, used, i + 1)

(***************************************************************************)
(* A visited member access is given with its surroundings: the outermost   *)
(* expression `root`, the path from root down to the node, and the node    *)
(* `top` that is root's parent.  node.parent is read off this.             *)
(***************************************************************************)
RECURSIVE Sub(_, _)
Sub(tree, path) == IF path = <<>> THEN tree ELSE Sub(tree[Head(path)], Tail(path))

Front(path) == SubSeq(path, 1, Len(path) - 1)

Visit(root, path, top) ==
    [type |-> "MemberExpression", root |-> root, path |-> path, top |-> top]

nodeOf(v) == Sub(v.root, v.path)

\* node.parent
parentOf(v) == IF v.path = <<>> THEN v.top ELSE Sub(v.root, Front(v.path))

\* node.parent.parent
grandParentOf(v) ==
    IF Len(v.path) >= 2 THEN Sub(v.root, Front(Front(v.path)))
    ELSE IF Len(v.path) = 1 THEN v.top
    ELSE [type |-> "Program"]

(***************************************************************************)
(* MemberExpression(node), lines 126-132: styles.foo                       *)
(***************************************************************************)
isStylesObject(n) == n.object.type = "Identifier" /\ n.object.name = "styles"

\* if (style) { usedStyles[style] = true; }
\* usedStyles.__proto__ = true is dropped by the inherited setter.
useStyle(used, style) ==
    IF Truthy(style) /\ ToPropertyKey(style) # ProtoKey
    THEN used \cup {ToPropertyKey(style)}
    ELSE used

(***************************************************************************)
(* MemberExpression(node), lines 134-173: this.props.styles.foo            *)
(***************************************************************************)
propsStyles(v, used) ==
    LET n == nodeOf(v)
        parent == parentOf(v)
        stylesIdentifier == getBasicIdentifier(n.property)
    IN  IF ~Truthy(stylesIdentifier) THEN used
        ELSE IF stylesIdentifier # Str("styles") THEN used
        ELSE IF parent.type # "MemberExpression" THEN used
        ELSE IF Has(n.object, "object") /\ n.object.object.type # "ThisExpression" THEN used
        ELSE LET propsIdentifier == getBasicIdentifier(parent.object) IN
             IF Truthy(propsIdentifier) /\ propsIdentifier # Str("props") THEN used
             ELSE IF ~Truthy(propsIdentifier) /\ parent.object.type # "MemberExpression"
             THEN used
             ELSE IF grandParentOf(v).type = "MemberExpression" THEN used
             ELSE useStyle(used, getBasicIdentifier(parent.property))

\* usedStyles after the visitor has run on v with the gate open.
memberExpression(v, used) ==
    IF isStylesObject(nodeOf(v))
    THEN useStyle(used, getBasicIdentifier(nodeOf(v).property))
    ELSE propsStyles(v, used)

(***************************************************************************)
(* The nodes a file may hand to the visitors.                              *)
(***************************************************************************)
LocalNames == {"css", "css2"}

Found == {Null} \cup {Str(x) : x \in LocalNames}

ImportDeclarations == {[type |-> "ImportDeclaration", importCSS |-> f] : f \in Found}

Property(key, computed, loc) ==
    [type |-> "Property", key |-> key, computed |-> computed, loc |-> loc]

SpreadProperty(loc) ==
    [type |-> "ExperimentalSpreadProperty", argument |-> Identifier("shared"), loc |-> loc]

\* The properties that may stand at position loc of an object literal.
\* a: .., b: ..
PlainPropertiesAt(loc) == {Property(Identifier(k), FALSE, loc) : k \in {"a", "b"}}

\* a: .., b: .., __proto__: .., 'a': .., [a]: .., [`a`]: .., ...shared
PropertiesAt(loc) ==
    PlainPropertiesAt(loc)
    \cup { Property(Identifier(ProtoKey), FALSE, loc),
           Property(Literal(Str("a")), FALSE, loc),
           Property(Identifier("a"), TRUE, loc),
           Property(TemplateLiteral(<<"a">>, <<>>), TRUE, loc),
           SpreadProperty(loc) }

ObjectExpression(ps) == [type |-> "ObjectExpression", properties |-> ps]

\* Object literals of up to MaxProps properties, with identifier keys only
\* (plain) or with any of the properties above.
ObjectsOver(plain) ==
    LET At(i) == IF plain THEN PlainPropertiesAt(i) ELSE PropertiesAt(i) IN
    { ObjectExpression(ps) :
        ps \in UNION { { qs \in [1..n -> UNION {At(i) : i \in 1..n}] :
                           \A i \in 1..n : qs[i] \in At(i) } : n \in 0..MaxProps } }

PlainObjectExpressions == ObjectsOver(TRUE)

ObjectExpressions == ObjectsOver(FALSE)

ReturnStatement(arg) == [type |-> "ReturnStatement", argument |-> arg]

\* return { a: .. };  return { b: .. };  return;  return x;  x;
Statements ==
    { ReturnStatement(ObjectExpression(<<Property(Identifier("a"), FALSE, 1)>>)),
      ReturnStatement(ObjectExpression(<<Property(Identifier("b"), FALSE, 1)>>)),
      ReturnStatement(Null),
      ReturnStatement(Identifier("x")),
      [type |-> "ExpressionStatement"] }

BlockStatement(stmts) == [type |-> "BlockStatement", body |-> stmts]

BlockStatements ==
    {BlockStatement(b) : b \in UNION {[1..n -> Statements] : n \in 0..MaxStmts}}

ArrowFunctionExpression(body) == [type |-> "ArrowFunctionExpression", body |-> body]

\* withStyles(), withStyles(x), withStyles(function () {..}), withStyles(() => body)
ArgumentsOver(bodies) ==
    { <<>>, <<Identifier("x")>>,
      <<[type |-> "FunctionExpression",
         body |-> BlockStatement(<<ReturnStatement(ObjectExpression(
                      <<Property(Identifier("a"), FALSE, 1)>>))>>)]>> }
    \cup {<<ArrowFunctionExpression(b)>> : b \in bodies}

\* () => ({ a: .., b: .. }), () => { return { a: .. }; }, () => { return; }, () => x
PlainArguments ==
    ArgumentsOver(PlainObjectExpressions
        \cup { BlockStatement(<<ReturnStatement(ObjectExpression(
                    <<Property(Identifier("a"), FALSE, 1)>>))>>),
               BlockStatement(<<ReturnStatement(Null)>>),
               Identifier("x") })

Arguments ==
    ArgumentsOver(ObjectExpressions \cup BlockStatements \cup {Identifier("x")})

CallExpr(callee, args, found) ==
    [type |-> "CallExpression", callee |-> callee, arguments |-> args,
     requireCSS |-> found]

\* require(..), and foo.withStyles(() => ({ a: .. }))
OtherCallExpressions ==
    {CallExpr(Identifier("require"), <<Literal(Str("react-with-styles"))>>, f) :
        f \in Found}
    \cup {CallExpr(MemberExpr(Identifier("foo"), Identifier("withStyles"), FALSE),
                   <<ArrowFunctionExpression(ObjectExpression(
                        <<Property(Identifier("a"), FALSE, 1)>>))>>, Null)}

WithStylesCalls == {CallExpr(Identifier("withStyles"), args, Null) : args \in Arguments}

CallExpressions ==
    {CallExpr(Identifier("withStyles"), args, Null) : args \in PlainArguments}
    \cup OtherCallExpressions

\* What may follow `styles`: .a .b .__proto__ [a] ['a'] [''] [0] [1] [10] [null]
\* [`a`] [`a${x}`] [a + b]
Accesses ==
    { <<Identifier("a"), FALSE>>, <<Identifier("b"), FALSE>>,
      <<Identifier(ProtoKey), FALSE>>, <<Identifier("a"), TRUE>>,
      <<Literal(Str("a")), TRUE>>, <<Literal(Str("")), TRUE>>,
      <<Literal(Num(0)), TRUE>>, <<Literal(Num(1)), TRUE>>, <<Literal(Num(10)), TRUE>>,
      <<Literal(Null), TRUE>>,
      <<TemplateLiteral(<<"a">>, <<>>), TRUE>>,
      <<TemplateLiteral(<<"a", "">>, <<Identifier("x")>>), TRUE>>,
      <<BinaryExpression, TRUE>> }

\* The parent of the outermost expression of a statement.  An expression held
\* by a further member access is not outermost: that access is (see Chains).
Top == [type |-> "ExpressionStatement"]

RECURSIVE MemberPaths(_)
\* The member accesses inside an expression, in the order the walker enters them.
MemberPaths(tree) ==
    IF tree.type = "MemberExpression"
    THEN LET under(f) == [i \in 1..Len(MemberPaths(tree[f])) |->
                            <<f>> \o MemberPaths(tree[f])[i]]
         IN  <<<<>>>> \o under("object") \o under("property")
    ELSE <<>>

VisitsOf(root, top) ==
    [i \in 1..Len(MemberPaths(root)) |-> Visit(root, MemberPaths(root)[i], top)]

Range(f) == {f[i] : i \in DOMAIN f}

\* styles.a and the like, and every member access of this.props.styles.a / .b
MemberExpressions ==
    {Visit(MemberExpr(Identifier("styles"), a[1], a[2]), <<>>, Top) : a \in Accesses}
    \cup UNION {Range(VisitsOf(
            MemberExpr(MemberExpr(MemberExpr(ThisExpression, Identifier("props"), FALSE),
                                  Identifier("styles"), FALSE), Identifier(k), FALSE),
            Top)) : k \in {"a", "b"}}

\* Chains base.p1.p2...pn, and x[base.p1.p2...pn] holding such a chain as its
\* computed property, of up to MaxChain member accesses.
Bases == {ThisExpression, Identifier("props"), Identifier("foo")}

Links == {Identifier("props"), Identifier("styles"), Identifier("a"), Identifier(ProtoKey)}

RECURSIVE ChainsOf(_)
ChainsOf(n) ==
    IF n = 0 THEN Bases
    ELSE {MemberExpr(c, p, FALSE) : c \in ChainsOf(n - 1), p \in Links}

\* x[chain]
HeldChain(c) == MemberExpr(Identifier("x"), c, TRUE)

Chains ==
    UNION {ChainsOf(n) : n \in 1..MaxChain}
    \cup UNION {{HeldChain(c) : c \in ChainsOf(n)} : n \in 1..(MaxChain - 1)}

(***************************************************************************)
(* State after create(context).                                            *)
(***************************************************************************)
NoNode == [type |-> "Program"]

Init ==
    /\ cssFromWithStylesName = Undefined
    /\ usedStyles = {}
    /\ definedStyles = <<>>
    /\ reports = <<>>
    /\ thrown = FALSE
    /\ node = NoNode
    /\ nVisited = 0
    /\ todo = <<>>

\* The walker calls a visitor: it does so until a visitor throws.
Walking == ~thrown /\ nVisited < MaxVisits

(***************************************************************************)
(* CallExpression(node), lines 52-117                                      *)
(***************************************************************************)
CallExpression(n) ==
    LET found == findRequireCSSFromWithStylesCallExpression(n)
        css   == IF found # Null THEN found ELSE cssFromWithStylesName
        calleeName == IF Has(n.callee, "name") THEN Str(n.callee.name) ELSE Undefined
    IN  /\ cssFromWithStylesName' = css
        /\ IF ~isCSSFound(css) \/ calleeName # Str("withStyles")
           THEN UNCHANGED <<definedStyles, reports, thrown>>
           ELSE LET r == findStylesObj(n) IN
                IF r.threw
                THEN thrown' = TRUE /\ UNCHANGED <<definedStyles, reports>>
                ELSE LET defs == IF r.obj # Undefined
                                 THEN defineStyles(definedStyles, r.obj.properties, 1)
                                 ELSE definedStyles
                     IN  /\ definedStyles' = defs
                         /\ reports' = reports \o reportUnused(defs, usedStyles, 1)
                         /\ thrown' = thrown
        /\ UNCHANGED usedStyles

(***************************************************************************)
(* MemberExpression(node), lines 119-174                                   *)
(***************************************************************************)
MemberExpression(v) ==
    /\ usedStyles' = IF ~isCSSFound(cssFromWithStylesName) THEN usedStyles
                     ELSE memberExpression(v, usedStyles)
    /\ UNCHANGED <<cssFromWithStylesName, definedStyles, reports, thrown>>

(***************************************************************************)
(* ImportDeclaration(node), lines 176-186                                  *)
(***************************************************************************)
ImportDeclaration(n) ==
    LET found == findImportCSSFromWithStylesImportDeclaration(n) IN
    /\ cssFromWithStylesName' =
          IF isCSSFound(cssFromWithStylesName) THEN cssFromWithStylesName
          ELSE IF found # Null THEN found ELSE cssFromWithStylesName
    /\ UNCHANGED <<usedStyles, definedStyles, reports, thrown>>

(***************************************************************************)
(* The walk over a file: any node, in any order.                           *)
(***************************************************************************)
VisitCallExpression ==
    \E n \in CallExpressions :
        /\ Walking
        /\ CallExpression(n)
        /\ node' = n /\ nVisited' = nVisited + 1 /\ UNCHANGED todo

VisitMemberExpression ==
    \E v \in MemberExpressions :
        /\ Walking
        /\ MemberExpression(v)
        /\ node' = v /\ nVisited' = nVisited + 1 /\ UNCHANGED todo

VisitImportDeclaration ==
    \E n \in ImportDeclarations :
        /\ Walking
        /\ ImportDeclaration(n)
        /\ node' = n /\ nVisited' = nVisited + 1 /\ UNCHANGED todo

Next == VisitCallExpression \/ VisitMemberExpression \/ VisitImportDeclaration

Spec == Init /\ [][Next]_vars

(***************************************************************************)
(* The walk over a file that holds import declarations and one chain of    *)
(* member accesses: the walker enters the accesses of the chain outermost  *)
(* first.                                                                  *)
(***************************************************************************)
InitChain ==
    /\ cssFromWithStylesName = Undefined
    /\ usedStyles = {}
    /\ definedStyles = <<>>
    /\ reports = <<>>
    /\ thrown = FALSE
    /\ node = NoNode
    /\ nVisited = 0
    /\ todo \in {VisitsOf(c, Top) : c \in Chains}

VisitNextMemberExpression ==
    /\ todo # <<>>
    /\ MemberExpression(Head(todo))
    /\ node' = Head(todo) /\ nVisited' = nVisited + 1 /\ todo' = Tail(todo)

NextChain == VisitImportDeclaration \/ VisitNextMemberExpression

SpecChain == InitChain /\ [][NextChain]_vars

(***************************************************************************)
(* The walk over a file that holds import declarations, require calls and  *)
(* withStyles calls with any of the argument shapes.                       *)
(***************************************************************************)
VisitWithStylesCall ==
    \E n \in WithStylesCalls \cup OtherCallExpressions :
        /\ Walking
        /\ CallExpression(n)
        /\ node' = n /\ nVisited' = nVisited + 1 /\ UNCHANGED todo

NextDefine == VisitImportDeclaration \/ VisitWithStylesCall

SpecDefine == Init /\ [][NextDefine]_vars

(***************************************************************************)
(* What the claims speak of.                                               *)
(***************************************************************************)
\* The styling function's local name has been recorded.
NameSet == cssFromWithStylesName # Undefined

\* The keys of the diagnostics, in the order reported.
ReportedKeys(rs) == [i \in 1..Len(rs) |-> rs[i].message[3]]

\* The diagnostics the step from the unprimed to the primed state has added.
Emitted == SubSeq(reports', Len(reports) + 1, Len(reports'))

\* () => ({ a: {} }) handed to withStyles
WithStylesA ==
    CallExpr(Identifier("withStyles"),
             <<ArrowFunctionExpression(ObjectExpression(
                   <<Property(Identifier("a"), FALSE, 1)>>))>>, Null)

\* styles.a
StylesDotA == Visit(MemberExpr(Identifier("styles"), Identifier("a"), FALSE), <<>>, Top)

IsWithStylesCall(n) ==
    n.type = "CallExpression" /\ n.callee = Identifier("withStyles")

\* Key Resolution as the specification words it: the name of an identifier, the
\* value of a literal as a string, the one chunk of a template literal without
\* interpolations; the empty set when the key is unresolved.
KeyResolution(n) ==
    IF n.type = "Identifier" THEN {n.name}
    ELSE IF n.type = "Literal" THEN {ToPropertyKey(n.value)}
    ELSE IF n.type = "TemplateLiteral" /\ Len(n.expressions) = 0 /\ Len(n.quasis) = 1
         THEN {n.quasis[1]}
    ELSE {}

(***************************************************************************)
(* C1.  While the styling function's local name is unset, usedStyles is    *)
(* empty, definedStyles is empty and nothing has been reported, whatever   *)
(* nodes have been visited.                                                *)
(***************************************************************************)
C1_NothingBeforeDetection ==
    ~NameSet => (usedStyles = {} /\ definedStyles = <<>> /\ reports = <<>>)

\* withStyles(() => ({ a: {} })) has just been visited, after other nodes, and
\* the name is still unset.
C1_Witness ==
    /\ ~NameSet
    /\ node = WithStylesA
    /\ nVisited >= 2
    /\ reports = <<>>

(***************************************************************************)
(* C2.  A file that imports css, calls withStyles(() => ({ a, b })) and    *)
(* then references styles.a, the reference being visited after the call,   *)
(* yields exactly one diagnostic, for b.                                    *)
(***************************************************************************)
C2_UsageAfterCallCounts ==
    ( /\ nVisited = 3
      /\ NameSet
      /\ node = StylesDotA
      /\ KeySet(definedStyles) = {"a", "b"}
      /\ usedStyles = {"a"} )
    => ReportedKeys(reports) = <<"b">>

(***************************************************************************)
(* C3.  Every visit of a withStyles call with the gate open emits exactly  *)
(* one diagnostic per key that is in definedStyles after the call and not  *)
(* in usedStyles, anchored at the defining property, with the message      *)
(* Style `k` is unused; and nothing else.                                  *)
(***************************************************************************)
C3_ReportsAreTheUnusedKeys ==
    [][ (IsWithStylesCall(node') /\ cssFromWithStylesName' # Undefined)
        => LET unused == KeySet(definedStyles') \ usedStyles' IN
           /\ SubSeq(reports', 1, Len(reports)) = reports
           /\ Len(Emitted) = Cardinality(unused)
           /\ Range(Emitted) = {[node |-> ObjectGet(definedStyles', k),
                                 message |-> Message(k)] : k \in unused}
      ]_vars

\* Supporting fact for C3: on the visits that return, the diagnostics are as the
\* claim states; the formula above fails only where the visitor throws (C10).
C3_ReturningVisitsReport ==
    [][ (IsWithStylesCall(node') /\ cssFromWithStylesName' # Undefined /\ ~thrown')
        => LET unused == KeySet(definedStyles') \ usedStyles' IN
           /\ SubSeq(reports', 1, Len(reports)) = reports
           /\ Len(Emitted) = Cardinality(unused)
           /\ Range(Emitted) = {[node |-> ObjectGet(definedStyles', k),
                                 message |-> Message(k)] : k \in unused}
      ]_vars

(***************************************************************************)
(* C4.  A withStyles call with no resolvable style-definitions object (no  *)
(* first argument, a first argument that is not a function, a block body   *)
(* without a return of an object literal) emits no diagnostic.             *)
(***************************************************************************)
ReturnsObject(stmt) ==
    /\ stmt.type = "ReturnStatement"
    /\ stmt.argument # Null
    /\ stmt.argument.type = "ObjectExpression"

NoDefinitionsObject(call) ==
    \/ Len(call.arguments) = 0
    \/ /\ Len(call.arguments) >= 1
       /\ LET f == call.arguments[1] IN
          \/ f.type \notin {"ArrowFunctionExpression", "FunctionExpression"}
          \/ /\ f.body.type = "BlockStatement"
             /\ \A i \in 1..Len(f.body.body) : ~ReturnsObject(f.body.body[i])

C4_NoObjectNoReport ==
    [][ (IsWithStylesCall(node') /\ NoDefinitionsObject(node')) => reports' = reports ]_vars

(***************************************************************************)
(* C5.  The keys a withStyles call writes to definedStyles are the Key     *)
(* Resolution strings of the non-computed, non-spread properties of its    *)
(* definitions object, each mapped to its property, the last one winning.  *)
(***************************************************************************)
RECURSIVE DefinedBy(_, _, _)
DefinedBy(defs, properties, i) ==
    IF i > Len(properties) THEN defs
    ELSE LET p == properties[i]
             skip == p.type = "ExperimentalSpreadProperty" \/ p.computed
         IN  IF skip \/ KeyResolution(p.key) = {}
             THEN DefinedBy(defs, properties, i + 1)
             ELSE DefinedBy(ObjectSet(defs, CHOOSE k \in KeyResolution(p.key) : TRUE, p),
                            properties, i + 1)

C5_DefinedKeysAreResolvedKeys ==
    [][ ( /\ IsWithStylesCall(node')
          /\ cssFromWithStylesName' # Undefined
          /\ ~thrown'
          /\ findStylesObj(node').obj # Undefined )
        => definedStyles' = DefinedBy(definedStyles, findStylesObj(node').obj.properties, 1)
      ]_vars

(***************************************************************************)
(* C6.  With the gate open, a visit of styles.P adds the Key Resolution    *)
(* result of P to usedStyles when P is resolved, adds nothing when it is   *)
(* not, and changes nothing else.                                          *)
(***************************************************************************)
C6_DirectAccessAddsResolvedKey ==
    [][ ( /\ NameSet
          /\ node'.type = "MemberExpression"
          /\ nodeOf(node').object = Identifier("styles") )
        => /\ usedStyles' = usedStyles \cup KeyResolution(nodeOf(node').property)
           /\ UNCHANGED <<cssFromWithStylesName, definedStyles, reports, thrown>>
      ]_vars

(***************************************************************************)
(* C7.  With the gate open, the visits of the member accesses of a chain   *)
(* this.props.styles.k, the chain not being the object of a further member *)
(* access, put k in usedStyles (the visit of this.props.styles does); and  *)
(* no visit of a member access of this.props.props.styles.k adds a key to  *)
(* usedStyles.                                                             *)
(***************************************************************************)
ThisProps == MemberExpr(ThisExpression, Identifier("props"), FALSE)

\* x.styles.k
StylesOf(x, k) ==
    MemberExpr(MemberExpr(x, Identifier("styles"), FALSE), Identifier(k), FALSE)

LinkNames == {l.name : l \in Links}

\* The paths of the visited expression at which the chain c stands.
PathsTo(v, c) ==
    {MemberPaths(v.root)[i] : i \in {j \in 1..Len(MemberPaths(v.root)) :
                                        Sub(v.root, MemberPaths(v.root)[j]) = c}}

\* The expression at path p is the object of the member access around it.
IsObjectOfAccess(p) == p # <<>> /\ p[Len(p)] = "object"

\* v is the access this.props.styles of the chain at path p, the one whose
\* visit records the key.
IsStylesOfChain(v, p) == v.path = p \o <<"object">>

\* v is an access of the chain at path p.
IsInChain(v, p) == Len(v.path) >= Len(p) /\ SubSeq(v.path, 1, Len(p)) = p

C7_ThisPropsStyles ==
    [][ (NameSet /\ node'.type = "MemberExpression")
        => \A k \in LinkNames :
             /\ \A p \in PathsTo(node', StylesOf(ThisProps, k)) :
                    (IsStylesOfChain(node', p) /\ ~IsObjectOfAccess(p))
                    => k \in usedStyles'
             /\ \A p \in PathsTo(node',
                          StylesOf(MemberExpr(ThisProps, Identifier("props"), FALSE), k)) :
                    IsInChain(node', p) => usedStyles' = usedStyles
      ]_vars

\* Supporting fact for C7: the formula above fails only for the key __proto__
\* and for a chain held as the property of a member access; a chain that is
\* the whole expression of a statement, with any other key, is recorded.
C7_StatementChains ==
    [][ (NameSet /\ node'.type = "MemberExpression")
        => \A k \in LinkNames \ {ProtoKey} :
             /\ (node'.root = StylesOf(ThisProps, k) /\ IsStylesOfChain(node', <<>>))
                => k \in usedStyles'
             /\ \A p \in PathsTo(node',
                          StylesOf(MemberExpr(ThisProps, Identifier("props"), FALSE), k)) :
                    IsInChain(node', p) => usedStyles' = usedStyles
      ]_vars

(***************************************************************************)
(* C8.  For a chain X.styles.k whose X is neither props nor this.props,    *)
(* visiting its member accesses adds nothing to usedStyles.                *)
(***************************************************************************)
C8_OnlyThroughProps ==
    [][ ( /\ node'.type = "MemberExpression"
          /\ \E k \in LinkNames, x \in Bases \cup Chains :
                /\ x \notin {Identifier("props"), ThisProps}
                /\ node'.root = StylesOf(x, k) )
        => usedStyles' = usedStyles
      ]_vars

(***************************************************************************)
(* C9.  Once the styling function's local name is set, no later visit      *)
(* changes it.                                                             *)
(***************************************************************************)
C9_NameSetOnce ==
    [][ NameSet => cssFromWithStylesName' = cssFromWithStylesName ]_vars

(***************************************************************************)
(* C10.  No visitor raises an error, whatever node it is given.            *)
(***************************************************************************)
C10_NoVisitorThrows == thrown = FALSE

====
